---------------------------- MODULE Spec2Model ----------------------------
(***************************************************************************)
(* coffee24: an Express admin tool over three Mongoose collections         *)
(* (Admin, Machine, Record).  The model is the HTTP surface of             *)
(* src/server.js over the documents the schemas of src/models admit.       *)
(*                                                                         *)
(* A request is one handler invocation.  A handler that awaits one store   *)
(* call is one action; a handler that awaits several (toggle, machine      *)
(* save, save-report) holds a slot of `h` between its awaits, so that      *)
(* other requests interleave exactly at the awaits.  Every awaited store   *)
(* call either resolves or rejects.  A rejection outside any try/catch     *)
(* leaves the handler as an unhandled rejection (the process only logs     *)
(* it, server.js 525): the response status is then "unhandled".            *)
(*                                                                         *)
(* Mongoose documents are records over the paths they store.  The schemas  *)
(* are strict (the Mongoose default): a path the schema does not declare   *)
(* is dropped from what a constructor, a save or an update writes, and is  *)
(* undefined when read from a document.  Machine documents carry the two  *)
(* paths the handlers compute with, ingredients and isSelected; code,      *)
(* model and location are copied from the form to the store and read by    *)
(* no handler, and are left out.  Quantities are whole units.              *)
(***************************************************************************)
EXTENDS Integers, Sequences, FiniteSets, TLC

\* ------------------------------------------------------------------ bounds
MaxMachines == 1      \* machine _ids 1..MaxMachines
MaxRecords  == 2      \* record _ids 1..MaxRecords
MaxDay      == 2      \* calendar dates 1..MaxDay, today only moves forward
MaxInFlight == 2      \* handlers suspended at an await at the same time

MachineIds == 1..MaxMachines
RecordIds  == 1..MaxRecords
Dates      == 1..MaxDay
Procs      == 1..MaxInFlight

NoDoc == [none |-> TRUE]          \* null: no document under this _id

\* ----------------------------------------------------------------- schemas
\* src/models/Machine.js: the paths MachineSchema declares.
MachineSchemaPaths == {"code", "model", "location", "ingredients"}

\* src/models/Machine.js: the paths IngredientSchema declares.
IngredientSchemaPaths == {"name", "quantity"}

\* IngredientSchema: quantity: {type: Number, default: 0}.
QuantityDefault == 0

\* Strict cast of a top-level Machine value (constructor, doc.save() of
\* modified paths, update operators): undeclared paths are dropped.
CastMachine(obj) == [f \in (DOMAIN obj) \cap MachineSchemaPaths |-> obj[f]]

\* Strict cast of one ingredient subdocument: undeclared paths are dropped,
\* a missing quantity takes the schema default.
CastIngredient(obj) ==
  [f \in ((DOMAIN obj) \cap IngredientSchemaPaths) \cup {"quantity"} |->
     IF f \in DOMAIN obj THEN obj[f] ELSE QuantityDefault]

CastIngredients(objs) == [i \in DOMAIN objs |-> CastIngredient(objs[i])]

\* doc.<path> on a hydrated Machine: undefined (the empty sequence) unless
\* the schema declares the path and the document stores it.
GetPath(doc, path) ==
  IF path \in MachineSchemaPaths /\ path \in DOMAIN doc THEN <<doc[path]>> ELSE <<>>

\* JavaScript !x for x undefined or a boolean.
JsNot(v) == IF v = <<>> THEN TRUE ELSE ~v[1]

\* $set of a cast update onto a stored document.
ApplySet(doc, upd) ==
  [f \in (DOMAIN doc) \cup (DOMAIN upd) |-> IF f \in DOMAIN upd THEN upd[f] ELSE doc[f]]

\* ------------------------------------------------------------ form inputs
\* Quantities as the forms post them (strings).
QtyInputs  == {"abc", "1"}

\* String.prototype.trim on the names above.
Trim(s) == IF s = " Sugar " THEN "Sugar" ELSE s

\* parseFloat(q) || 0 : NaN (and 0) become 0.
ParseFloatOrZero(q) == IF q = "1" THEN 1 ELSE 0

\* req.body.ingredients of POST /machine/:id/edit.
IngredientForms ==
  { << [name |-> "Milk", quantity |-> "1"], [name |-> "Milk", quantity |-> "1"] >>,
    << [name |-> "Milk", quantity |-> "1"], [name |-> " Sugar ", quantity |-> "abc"] >> }

\* server.js 283-288: formattedIngredients.
FormatIngredients(form) ==
  [i \in DOMAIN form |->
     [name |-> Trim(form[i].name), quantity |-> ParseFloatOrZero(form[i].quantity)]]

\* server.js 209-214 and 333-338: the fixed ingredient list (two of the 15).
AllIngredients == <<"Milk", "Sugar">>

\* server.js 217-224 and 340-350: the objects built from the fixed list; the
\* posted predefined_/current_ values land in paths the schema drops.
CanonicalIngredients(pre, cur) ==
  [i \in DOMAIN AllIngredients |->
     [name |-> AllIngredients[i], predefinedQuantity |-> pre, currentQuantity |-> cur]]

\* ------------------------------------------------------------------ state
VARIABLES
  machines,     \* Machine collection: _id -> stored document or NoDoc
  records,      \* Record collection: _id -> stored document or NoDoc
  today,        \* the wall-clock date moment().format('YYYY-MM-DD') returns
  session,      \* req.session.adminId of the browser session ("none" if unset)
  strictQuery,  \* the build's Mongoose strictQuery default (6.x TRUE; 5.x, 7.x+ FALSE)
  h,            \* per slot: the handler suspended at an await, with its locals
  resp          \* the response written by the step just taken (NoResp if none)

vars == <<machines, records, today, session, strictQuery, h, resp>>

\* ------------------------------------------------------------- aggregation
EmptyTotals == [n \in {} |-> 0]

\* server.js 317 / 374: totals[ing.name] = (totals[ing.name] || 0) + Number(ing.quantity || 0)
AddIngredient(totals, ing) ==
  [n \in (DOMAIN totals) \cup {ing.name} |->
     (IF n \in DOMAIN totals THEN totals[n] ELSE 0)
       + (IF n = ing.name THEN ing.quantity ELSE 0)]

RECURSIVE SumIngredients(_, _)
\* server.js 316-318 / 373-375: m.ingredients.forEach(...)
SumIngredients(totals, ings) ==
  IF ings = <<>> THEN totals
  ELSE SumIngredients(AddIngredient(totals, Head(ings)), Tail(ings))

RECURSIVE SumMachines(_, _)
\* server.js 315-319 / 372-376: machines.forEach(...)
SumMachines(totals, docs) ==
  IF docs = <<>> THEN totals
  ELSE SumMachines(SumIngredients(totals, Head(docs).ingredients), Tail(docs))

Aggregate(docs) == SumMachines(EmptyTotals, docs)

\* ------------------------------------------------------------------ queries
\* A query filter over Machine: with strictQuery the filter is cast like a
\* document (undeclared paths dropped), otherwise it reaches the store as is.
CastFilter(filter, sq) ==
  IF sq THEN [f \in (DOMAIN filter) \cap MachineSchemaPaths |-> filter[f]] ELSE filter

Matches(doc, filter) == \A f \in DOMAIN filter : f \in DOMAIN doc /\ doc[f] = filter[f]

IdSeq == [i \in 1..MaxMachines |-> i]

\* Machine.find(filter): the stored documents that match, in _id order.
FindMachines(ms, filter, sq) ==
  LET hit(i) == ms[i] # NoDoc /\ Matches(ms[i], CastFilter(filter, sq))
      ids    == SelectSeq(IdSeq, hit)
  IN  [k \in DOMAIN ids |-> ms[ids[k]]]

\* server.js 313 / 368: Machine.find({ isSelected: true }).
FindSelected(ms, sq) == FindMachines(ms, [isSelected |-> TRUE], sq)

\* Record.findOne({ date }): the _ids of the stored records of that date.
RecordsOf(rs, date) == {r \in RecordIds : rs[r] # NoDoc /\ rs[r].date = date}

FreeMachineIds(ms) == {m \in MachineIds : ms[m] = NoDoc}
FreeRecordIds(rs)  == {r \in RecordIds : rs[r] = NoDoc}
Min(S) == CHOOSE x \in S : \A y \in S : x <= y

\* --------------------------------------------------------------- sessions
\* server.js 73-80: the one seeded admin; bcrypt.hash / bcrypt.compare.
Hash(pw) == <<"bcrypt", pw>>
Admins == { [id |-> "admin1", username |-> "admin", passwordHash |-> Hash("secret")] }
Usernames == {"admin", "guest"}
Passwords == {"secret", "wrong"}

\* server.js 63-66: requireAuth passes iff the session carries an adminId.
Authed == session # "none"

\* -------------------------------------------------------------- responses
NoResp == [route |-> "none", authed |-> FALSE, status |-> "none", step |-> "none", body |-> <<>>]

Resp(route, status, step, body) ==
  [route |-> route, authed |-> Authed, status |-> status, step |-> step, body |-> body]

\* requireAuth's redirect.
ToLogin(route) == Resp(route, "302:/login", "requireAuth", <<>>)

\* A free slot.  id, sel: locals of toggle and machine save; totals, date:
\* locals of save-report.  dropped is history: the upsert overwrote a stored
\* Record that had a key the new totals lack.
Idle == [pc |-> "idle", id |-> 0, date |-> 0, totals |-> EmptyTotals, sel |-> FALSE,
         dropped |-> FALSE]


\* server.js 84-88: seed() inserts the seed file's machines through the
\* model (so cast by the schema) when the collection is empty, or fails and
\* only logs.  The seed file is one machine here.
SeededMachines ==
  {NoDoc} \cup {CastMachine([isSelected |-> FALSE, ingredients |-> CastIngredients(FormatIngredients(f))])
                 : f \in IngredientForms}

\* The handler in slot p runs to its next await (or to its response).
StepBy(p, next) == h' = [h EXCEPT ![p] = next]

Init ==
  /\ machines \in {[m \in MachineIds |-> IF m = 1 THEN d ELSE NoDoc] : d \in SeededMachines}
  /\ records = [r \in RecordIds |-> NoDoc]
  /\ today = 1
  /\ session = "none"
  /\ strictQuery \in BOOLEAN
  /\ h = [p \in Procs |-> Idle]
  /\ resp = NoResp

\* A single-await request by a client outside the slots.
OneShot(r) == /\ resp' = r
              /\ UNCHANGED <<today, session, strictQuery, h>>

\* ------------------------------------------------------------------- clock
Tick == /\ today < MaxDay
        /\ today' = today + 1
        /\ resp' = NoResp
        /\ UNCHANGED <<machines, records, session, strictQuery, h>>

\* ------------------------------------------------------------- auth routes
\* server.js 119-129: POST /login (no try/catch around Admin.findOne).
PostLogin ==
  \E u \in Usernames, pw \in Passwords, fails \in BOOLEAN :
    LET found == {a \in Admins : a.username = u}
        ok    == found # {} /\ \A a \in found : a.passwordHash = Hash(pw)
    IN  /\ UNCHANGED <<machines, records, today, strictQuery>>
        /\ UNCHANGED h
        /\ IF fails
             THEN /\ resp' = Resp("POST /login", "unhandled", "Admin.findOne", <<>>)
                  /\ UNCHANGED session
             ELSE IF ok
               THEN /\ session' = (CHOOSE a \in found : TRUE).id
                    /\ resp' = Resp("POST /login", "302:/", "redirect", <<>>)
               ELSE /\ resp' = Resp("POST /login", "200", "render login", <<>>)
                    /\ UNCHANGED session

\* server.js 131: GET /logout.
GetLogout ==
  /\ session' = "none"
  /\ resp' = Resp("GET /logout", "302:/login", "redirect", <<>>)
  /\ UNCHANGED h
  /\ UNCHANGED <<machines, records, today, strictQuery>>

\* server.js 111, 117, 167-202: GET /, GET /login, GET /machine/new render
\* without touching the store; only GET / is behind requireAuth.
GetHome ==
  /\ OneShot(IF Authed THEN Resp("GET /", "200", "render", <<>>) ELSE ToLogin("GET /"))
  /\ UNCHANGED <<machines, records>>

GetLogin ==
  /\ OneShot(Resp("GET /login", "200", "render", <<>>))
  /\ UNCHANGED <<machines, records>>

GetMachineNew ==
  /\ OneShot(Resp("GET /machine/new", "200", "render", <<>>))
  /\ UNCHANGED <<machines, records>>

\* ---------------------------------------------------------- machine routes
\* A catch block that swallows the error and redirects.
CatchRedirects(route) == "302:/records"

\* server.js 156-158, 236-238, 246-248, 265-267, 304-306, 321-323, 354-356,
\* 391-393, 424-426: the status a route's catch block answers with.
CatchStatus(route) == "500"

\* server.js 143-153: the dashboard's own totals, over m.isActive and
\* ing.predefinedQuantity.
DashboardTotals(docs) ==
  LET act == SelectSeq(docs, LAMBDA d : GetPath(d, "isActive") = <<TRUE>>)
      pre(ing) == [name |-> ing.name,
                   quantity |-> IF "predefinedQuantity" \in DOMAIN ing
                                THEN ing.predefinedQuantity ELSE 0]
  IN  Aggregate([k \in DOMAIN act |->
                   [ingredients |-> [i \in DOMAIN act[k].ingredients |-> pre(act[k].ingredients[i])]]])

\* server.js 137-160: GET /dashboard.
GetDashboard ==
  /\ UNCHANGED <<machines, records>>
  /\ \E fails \in BOOLEAN :
       OneShot(IF ~Authed THEN ToLogin("GET /dashboard")
               ELSE IF fails THEN Resp("GET /dashboard", CatchStatus("GET /dashboard"), "Machine.find", <<>>)
               ELSE Resp("GET /dashboard", "200", "render",
                         DashboardTotals(FindMachines(machines, <<>>, strictQuery))))

\* server.js 205-240: POST /machine/new.
PostMachineNew ==
  /\ UNCHANGED records
  /\ \E fails \in BOOLEAN, pre \in QtyInputs :
       LET doc == CastMachine([isActive |-> FALSE,
                               ingredients |-> CastIngredients(
                                  CanonicalIngredients(ParseFloatOrZero(pre), 0))])
       IN  IF ~Authed
           THEN OneShot(ToLogin("POST /machine/new")) /\ UNCHANGED machines
           ELSE IF fails
           THEN /\ OneShot(Resp("POST /machine/new", CatchStatus("POST /machine/new"), "save", <<>>))
                /\ UNCHANGED machines
           ELSE /\ FreeMachineIds(machines) # {}
                /\ machines' = [machines EXCEPT ![Min(FreeMachineIds(machines))] = doc]
                /\ OneShot(Resp("POST /machine/new", "302:/dashboard", "redirect", <<>>))

\* server.js 242-250: POST /machine/:id/delete.
PostMachineDelete ==
  /\ UNCHANGED records
  /\ \E fails \in BOOLEAN, id \in MachineIds :
       IF ~Authed
       THEN OneShot(ToLogin("POST /machine/:id/delete")) /\ UNCHANGED machines
       ELSE IF fails
       THEN /\ OneShot(Resp("POST /machine/:id/delete", CatchStatus("POST /machine/:id/delete"),
                            "Machine.findByIdAndDelete", <<>>))
            /\ UNCHANGED machines
       ELSE /\ machines' = [machines EXCEPT ![id] = NoDoc]
            /\ OneShot(Resp("POST /machine/:id/delete", "302:/dashboard", "redirect", <<>>))

\* server.js 252-257: GET /machine/:id (no try/catch).
GetMachine ==
  /\ UNCHANGED <<machines, records>>
  /\ \E fails \in BOOLEAN, id \in MachineIds :
       OneShot(IF ~Authed THEN ToLogin("GET /machine/:id")
               ELSE IF fails THEN Resp("GET /machine/:id", "unhandled", "Machine.findById", <<>>)
               ELSE IF machines[id] = NoDoc
                    THEN Resp("GET /machine/:id", "302:/dashboard", "redirect", <<>>)
                    ELSE Resp("GET /machine/:id", "200", "render", <<>>))

\* server.js 273-308: POST /machine/:id/edit (registered without requireAuth).
PostMachineEdit ==
  /\ UNCHANGED records
  /\ \E fails \in BOOLEAN, isNew \in BOOLEAN, id \in MachineIds, form \in IngredientForms :
       LET upd == CastMachine([ingredients |-> CastIngredients(FormatIngredients(form))])
       IN  IF fails
           THEN /\ OneShot(Resp("POST /machine/:id/edit", CatchStatus("POST /machine/:id/edit"),
                                "Machine.create/findByIdAndUpdate", <<>>))
                /\ UNCHANGED machines
           ELSE /\ IF isNew
                   THEN /\ FreeMachineIds(machines) # {}
                        /\ machines' = [machines EXCEPT ![Min(FreeMachineIds(machines))] = upd]
                   ELSE machines' = [machines EXCEPT
                          ![id] = IF machines[id] = NoDoc THEN NoDoc ELSE ApplySet(machines[id], upd)]
                /\ OneShot(Resp("POST /machine/:id/edit", "302:/dashboard", "redirect", <<>>))

\* server.js 311-325: GET /totals.
GetTotals ==
  /\ UNCHANGED <<machines, records>>
  /\ \E fails \in BOOLEAN :
       OneShot(IF ~Authed THEN ToLogin("GET /totals")
               ELSE IF fails THEN Resp("GET /totals", CatchStatus("GET /totals"), "Machine.find", EmptyTotals)
               ELSE Resp("GET /totals", "200", "json",
                         Aggregate(FindSelected(machines, strictQuery))))

\* server.js 259-269: POST /machine/:id/toggle, up to the await of save().
\* A null machine throws at line 262 and lands in the catch block.
ToggleFind(p) ==
  /\ h[p].pc = "idle"
  /\ Authed
  /\ UNCHANGED <<machines, records, today, session, strictQuery>>
  /\ \E fails \in BOOLEAN, id \in MachineIds :
       IF fails \/ machines[id] = NoDoc
       THEN /\ StepBy(p, Idle)
            /\ resp' = Resp("POST /machine/:id/toggle", CatchStatus("POST /machine/:id/toggle"),
                            IF fails THEN "Machine.findById" ELSE "TypeError", <<>>)
       ELSE /\ StepBy(p, [Idle EXCEPT !.pc = "tg_save", !.id = id,
                                      !.sel = JsNot(GetPath(machines[id], "isSelected"))])
            /\ resp' = NoResp

\* requireAuth in front of the three multi-await routes.
GateRedirect ==
  /\ ~Authed
  /\ UNCHANGED <<machines, records>>
  /\ \E route \in {"POST /machine/:id/toggle", "POST /machine/:id/save", "POST /save-report"} :
       OneShot(ToLogin(route))

\* doc.save(): $set of the modified paths the schema declares onto the
\* stored document; nothing is sent when no declared path was modified, and
\* a document deleted meanwhile makes save() reject (DocumentNotFoundError).
SaveGone(ms, id, modified) == CastMachine(modified) # <<>> /\ ms[id] = NoDoc

SaveDoc(ms, id, modified) ==
  IF CastMachine(modified) = <<>> \/ ms[id] = NoDoc THEN ms
  ELSE [ms EXCEPT ![id] = ApplySet(ms[id], CastMachine(modified))]

\* server.js 263-268: await machine.save(), then the JSON answer.
ToggleSave(p) ==
  /\ h[p].pc = "tg_save"
  /\ UNCHANGED <<records, today, session, strictQuery>>
  /\ StepBy(p, Idle)
  /\ \E fails \in BOOLEAN :
       LET modified == [isSelected |-> h[p].sel]
       IN  IF fails \/ SaveGone(machines, h[p].id, modified)
           THEN /\ UNCHANGED machines
                /\ resp' = Resp("POST /machine/:id/toggle", CatchStatus("POST /machine/:id/toggle"),
                                "save", <<>>)
           ELSE /\ machines' = SaveDoc(machines, h[p].id, modified)
                /\ resp' = Resp("POST /machine/:id/toggle", "200", "json",
                                [id |-> h[p].id, isSelected |-> h[p].sel])

\* server.js 327-330: POST /machine/:id/save, up to the await of save().
MachineSaveFind(p) ==
  /\ h[p].pc = "idle"
  /\ Authed
  /\ UNCHANGED <<machines, records, today, session, strictQuery>>
  /\ \E fails \in BOOLEAN, id \in MachineIds :
       IF fails
       THEN /\ StepBy(p, Idle)
            /\ resp' = Resp("POST /machine/:id/save", CatchStatus("POST /machine/:id/save"),
                            "Machine.findById", <<>>)
       ELSE IF machines[id] = NoDoc
       THEN /\ StepBy(p, Idle)
            /\ resp' = Resp("POST /machine/:id/save", "302:/dashboard", "not found", <<>>)
       ELSE /\ StepBy(p, [Idle EXCEPT !.pc = "ms_save", !.id = id])
            /\ resp' = NoResp

\* server.js 340-357: machine.ingredients = ...; await machine.save().
MachineSaveSave(p) ==
  /\ h[p].pc = "ms_save"
  /\ UNCHANGED <<records, today, session, strictQuery>>
  /\ StepBy(p, Idle)
  /\ \E fails \in BOOLEAN, pre \in QtyInputs, cur \in QtyInputs :
       LET modified == [ingredients |-> CastIngredients(
                          CanonicalIngredients(ParseFloatOrZero(pre), ParseFloatOrZero(cur)))]
       IN  IF fails \/ SaveGone(machines, h[p].id, modified)
           THEN /\ UNCHANGED machines
                /\ resp' = Resp("POST /machine/:id/save", CatchStatus("POST /machine/:id/save"),
                                "save", <<>>)
           ELSE /\ machines' = SaveDoc(machines, h[p].id, modified)
                /\ resp' = Resp("POST /machine/:id/save", "302:/dashboard", "redirect", <<>>)

\* ------------------------------------------------------------- save-report
\* server.js 365-376: POST /save-report up to the upsert: the selected
\* machines are read and summed.
SaveReportFind(p) ==
  /\ h[p].pc = "idle"
  /\ Authed
  /\ UNCHANGED <<machines, records, today, session, strictQuery>>
  /\ \E fails \in BOOLEAN :
       IF fails
       THEN /\ StepBy(p, Idle)
            /\ resp' = Resp("POST /save-report", CatchStatus("POST /save-report"), "Machine.find", <<>>)
       ELSE /\ StepBy(p, [Idle EXCEPT !.pc = "sr_upsert",
                                      !.totals = Aggregate(FindSelected(machines, strictQuery))])
            /\ resp' = NoResp

\* A merging upsert: the keys of the stored totals survive.
MergeRecord(doc, date, totals) ==
  [date |-> date,
   totals |-> [k \in (DOMAIN doc.totals) \cup (DOMAIN totals) |->
                 IF k \in DOMAIN totals THEN totals[k] ELSE doc.totals[k]]]

\* server.js 382: the update { date: today, totals } is a $set of both paths.
UpdateRecord(doc, date, totals) == ApplySet(doc, [date |-> date, totals |-> totals])

\* A Record collection without the unique index.
NoUniqueIndex(rs, date) == FALSE

\* src/models/Record.js 4: date is unique: an insert of a date some stored
\* Record already has is rejected (E11000).
DuplicateKey(rs, date) == RecordsOf(rs, date) # {}

HasDroppedKey(old, new) == (DOMAIN old) \ (DOMAIN new) # {}

\* The update half of the upsert, on the stored Record of that date.
ReplaceStored(p, date) ==
  LET r == Min(RecordsOf(records, date))
  IN  /\ records' = [records EXCEPT ![r] = UpdateRecord(records[r], date, h[p].totals)]
      /\ StepBy(p, [h[p] EXCEPT !.pc = "sr_reset", !.date = date,
                                !.dropped = HasDroppedKey(records[r].totals, h[p].totals)])
      /\ resp' = NoResp

\* server.js 379-384: today is read, then Record.findOneAndUpdate with
\* upsert: a stored Record of the date is updated in place; when none
\* matches, the store goes on to insert one (SaveReportInsert), and other
\* operations can run in between.
SaveReportUpsert(p) ==
  /\ h[p].pc = "sr_upsert"
  /\ UNCHANGED <<machines, today, session, strictQuery>>
  /\ \E fails \in BOOLEAN :
       IF fails
       THEN /\ StepBy(p, Idle)
            /\ UNCHANGED records
            /\ resp' = Resp("POST /save-report", CatchStatus("POST /save-report"),
                            "Record.findOneAndUpdate", <<>>)
       ELSE IF RecordsOf(records, today) # {}
       THEN ReplaceStored(p, today)
       ELSE /\ StepBy(p, [h[p] EXCEPT !.pc = "sr_insert", !.date = today])
            /\ UNCHANGED records
            /\ resp' = NoResp

\* The insert half of the upsert.  When a Record of the date has been
\* inserted meanwhile, the unique index rejects this one: the store either
\* reports the duplicate key or retries the upsert as an update.
SaveReportInsert(p) ==
  /\ h[p].pc = "sr_insert"
  /\ UNCHANGED <<machines, today, session, strictQuery>>
  /\ IF DuplicateKey(records, h[p].date)
     THEN \/ /\ StepBy(p, Idle)
             /\ UNCHANGED records
             /\ resp' = Resp("POST /save-report", CatchStatus("POST /save-report"), "E11000", <<>>)
          \/ ReplaceStored(p, h[p].date)
     ELSE /\ FreeRecordIds(records) # {}
          /\ records' = [records EXCEPT ![Min(FreeRecordIds(records))] =
                           [date |-> h[p].date, totals |-> h[p].totals]]
          /\ StepBy(p, [h[p] EXCEPT !.pc = "sr_reset"])
          /\ resp' = NoResp

\* Machine.updateMany({}, { $set: update }): the cast update on every document.
UpdateMany(ms, update) ==
  [m \in MachineIds |-> IF ms[m] = NoDoc THEN NoDoc ELSE ApplySet(ms[m], CastMachine(update))]

\* server.js 386-394: the reset, then the redirect.
SaveReportReset(p) ==
  /\ h[p].pc = "sr_reset"
  /\ UNCHANGED <<records, today, session, strictQuery>>
  /\ StepBy(p, Idle)
  /\ \E fails \in BOOLEAN :
       IF fails
       THEN /\ UNCHANGED machines
            /\ resp' = Resp("POST /save-report", CatchStatus("POST /save-report"),
                            "Machine.updateMany", <<>>)
       ELSE /\ machines' = UpdateMany(machines, [isSelected |-> FALSE])
            /\ resp' = Resp("POST /save-report", "302:/records", "redirect", <<>>)

\* ----------------------------------------------------------- record routes
\* server.js 404-407: GET /records (no try/catch).
GetRecords ==
  /\ UNCHANGED <<machines, records>>
  /\ \E fails \in BOOLEAN :
       OneShot(IF ~Authed THEN ToLogin("GET /records")
               ELSE IF fails THEN Resp("GET /records", "unhandled", "Record.find", <<>>)
               ELSE Resp("GET /records", "200", "render", <<>>))

\* server.js 409-413: GET /record/:id (no try/catch).
GetRecord ==
  /\ UNCHANGED <<machines, records>>
  /\ \E fails \in BOOLEAN, id \in RecordIds :
       OneShot(IF ~Authed THEN ToLogin("GET /record/:id")
               ELSE IF fails THEN Resp("GET /record/:id", "unhandled", "Record.findById", <<>>)
               ELSE IF records[id] = NoDoc
                    THEN Resp("GET /record/:id", "302:/records", "redirect", <<>>)
                    ELSE Resp("GET /record/:id", "200", "render", <<>>))

\* server.js 416-428: DELETE /record/:id.
DeleteRecord ==
  /\ UNCHANGED machines
  /\ \E fails \in BOOLEAN, id \in RecordIds :
       IF ~Authed
       THEN OneShot(ToLogin("DELETE /record/:id")) /\ UNCHANGED records
       ELSE IF fails
       THEN /\ OneShot(Resp("DELETE /record/:id", CatchStatus("DELETE /record/:id"),
                            "Record.findByIdAndDelete", <<>>))
            /\ UNCHANGED records
       ELSE IF records[id] = NoDoc
       THEN OneShot(Resp("DELETE /record/:id", "404", "json", <<>>)) /\ UNCHANGED records
       ELSE /\ records' = [records EXCEPT ![id] = NoDoc]
            /\ OneShot(Resp("DELETE /record/:id", "200", "json", <<>>))

\* A lookup that falls back to some stored Record when the date has none.
FindNearestRecord(rs, date) ==
  IF RecordsOf(rs, date) # {} THEN << rs[Min(RecordsOf(rs, date))] >>
  ELSE IF FreeRecordIds(rs) = RecordIds THEN <<>>
  ELSE << rs[Min(RecordIds \ FreeRecordIds(rs))] >>

\* server.js 442-443: Record.findOne({ date: target }); records = r ? [r] : [].
FindOneRecord(rs, date) ==
  IF RecordsOf(rs, date) = {} THEN <<>> ELSE << rs[Min(RecordsOf(rs, date))] >>

RECURSIVE RecordsFrom(_, _)
\* server.js 439: Record.find().sort({ date: 1 }).
RecordsFrom(rs, d) ==
  IF d > MaxDay THEN <<>>
  ELSE LET ids == SelectSeq([i \in 1..MaxRecords |-> i],
                            LAMBDA r : rs[r] # NoDoc /\ rs[r].date = d)
       IN  [k \in DOMAIN ids |-> rs[ids[k]]] \o RecordsFrom(rs, d + 1)

\* req.body.date: absent (<<>>) or a date string.
DateInputs == {<<>>} \cup {<<d>> : d \in Dates}

\* server.js 441: date || moment().format('YYYY-MM-DD').
Target(date, now) == IF date = <<>> THEN now ELSE date[1]

\* server.js 434-444: POST /generate-report up to the choice of records (no
\* try/catch); both renderers then answer 200 with a download.
GenerateReport ==
  /\ UNCHANGED <<machines, records>>
  /\ \E fails \in BOOLEAN, allDates \in {"on", ""}, date \in DateInputs :
       OneShot(IF ~Authed THEN ToLogin("POST /generate-report")
               ELSE IF fails
               THEN Resp("POST /generate-report", "unhandled", "Record.find/findOne", <<>>)
               ELSE Resp("POST /generate-report", "200", "download",
                         [allDates |-> allDates, date |-> date,
                          records |-> IF allDates = "on" THEN RecordsFrom(records, 1)
                                      ELSE FindOneRecord(records, Target(date, today))]))

\* The steps of the multi-await handlers in slot p.
Handlers(p) ==
  \/ ToggleFind(p) \/ ToggleSave(p)
  \/ MachineSaveFind(p) \/ MachineSaveSave(p)
  \/ SaveReportFind(p) \/ SaveReportUpsert(p)
  \/ SaveReportInsert(p) \/ SaveReportReset(p)

\* The requests that hold no slot.
Requests ==
  \/ PostLogin \/ GetLogout \/ GetHome \/ GetLogin \/ GetMachineNew
  \/ GetDashboard \/ PostMachineNew \/ PostMachineDelete \/ GetMachine
  \/ PostMachineEdit \/ GetTotals \/ GateRedirect
  \/ GetRecords \/ GetRecord \/ DeleteRecord \/ GenerateReport

\* Every route of server.js, with at most one handler suspended at a time.
Next == Tick \/ Requests \/ Handlers(1)

Spec == Init /\ [][Next]_vars

\* Every route of server.js, one request at a time: a request arrives only
\* when no handler is suspended.
NextSerial ==
  \/ Tick
  \/ h[1].pc = "idle" /\ Requests
  \/ Handlers(1)

SpecSerial == Init /\ [][NextSerial]_vars

\* The routes that write Machine or Record documents, with MaxInFlight
\* handlers suspended at a time.
NextRace ==
  \/ Tick \/ PostLogin \/ PostMachineEdit \/ DeleteRecord
  \/ \E p \in Procs : \/ ToggleFind(p) \/ ToggleSave(p)
                      \/ SaveReportFind(p) \/ SaveReportUpsert(p)
                      \/ SaveReportInsert(p) \/ SaveReportReset(p)

SpecRace == Init /\ [][NextRace]_vars

\* POST /save-report and DELETE /record/:id only, with MaxInFlight
\* save-reports suspended at a time.
NextUpsert ==
  \/ Tick \/ PostLogin \/ DeleteRecord
  \/ \E p \in Procs : \/ SaveReportFind(p) \/ SaveReportUpsert(p)
                      \/ SaveReportInsert(p) \/ SaveReportReset(p)

SpecUpsert == Init /\ [][NextUpsert]_vars

\* The Record routes: save-report (one suspended at a time), delete and
\* generate-report, with the machine edits that change what a report sums.
NextReports ==
  \/ Tick \/ PostLogin \/ PostMachineEdit \/ DeleteRecord \/ GenerateReport
  \/ SaveReportFind(1) \/ SaveReportUpsert(1) \/ SaveReportInsert(1) \/ SaveReportReset(1)

SpecReports == Init /\ [][NextReports]_vars

\* ------------------------------------------------------------------ claims
SaveReportPcs == {"sr_upsert", "sr_insert", "sr_reset"}

\* The isSelected value a stored Machine document holds (<<>> if none).
StoredSelected(ms, m) ==
  IF ms[m] # NoDoc /\ "isSelected" \in DOMAIN ms[m] THEN <<ms[m].isSelected>> ELSE <<>>

SelectedIds(ms) == {m \in MachineIds : StoredSelected(ms, m) = <<TRUE>>}

RECURSIVE SumOver(_, _)
SumOver(S, f) ==
  IF S = {} THEN 0 ELSE LET x == CHOOSE y \in S : TRUE IN f[x] + SumOver(S \ {x}, f)

\* The totals the specification asks for: per ingredient name, the sum of
\* the quantities of every entry of that name over the selected machines.
ExpectedTotals(ms) ==
  LET sel == SelectedIds(ms)
      names == UNION {{ms[m].ingredients[i].name : i \in DOMAIN ms[m].ingredients} : m \in sel}
      entries(m, n) == {i \in DOMAIN ms[m].ingredients : ms[m].ingredients[i].name = n}
      ofMachine(m, n) == SumOver(entries(m, n), [i \in entries(m, n) |-> ms[m].ingredients[i].quantity])
      total(n) == SumOver(sel, [m \in sel |-> ofMachine(m, n)])
  IN  [n \in names |-> total(n)]

\* The one Record of `date` holds exactly `totals`.
RecordHolds(rs, date, totals) ==
  \E r \in RecordIds : RecordsOf(rs, date) = {r} /\ rs[r].totals = totals

\* C1: no step taken by a request whose session carries no admin identity
\* creates, changes or deletes a Machine or a Record.
C1_NoUnauthWrite ==
  [][(resp' # NoResp /\ ~resp'.authed) => (machines' = machines /\ records' = records)]_vars

\* C2: in every reachable state the store holds at most one Record per date.
C2_OneRecordPerDate == \A d \in Dates : Cardinality(RecordsOf(records, d)) <= 1

\* C2 witness: two save-reports raced to insert the Record of one date and
\* the second insert was turned away, leaving one Record.
C2_Witness ==
  /\ resp.route = "POST /save-report" /\ resp.step = "E11000"
  /\ Cardinality(RecordsOf(records, today)) = 1

\* C3: when the upsert of a save-report completes, the store holds exactly
\* one Record of its date and that Record's totals are exactly the totals
\* this run computed, whether a Record of the date existed or not.
C3_FullReplace ==
  [][\A p \in Procs :
       (h[p].pc \in {"sr_upsert", "sr_insert"} /\ h'[p].pc = "sr_reset")
         => RecordHolds(records', h'[p].date, h[p].totals)]_vars

\* C3 witness: a second run has just overwritten a Record that had a key
\* its own totals lack, and the Record now equals the second run's totals.
C3_Witness ==
  \E p \in Procs : /\ h[p].pc = "sr_reset" /\ h[p].dropped
                   /\ RecordHolds(records, h[p].date, h[p].totals)

\* C4: a successful toggle of an existing machine leaves the machine's
\* stored isSelected at the negation of its value before the toggle.
C4_ToggleNegates ==
  [][\A p \in Procs :
       (/\ h[p].pc = "tg_save" /\ h'[p].pc = "idle"
        /\ resp'.route = "POST /machine/:id/toggle" /\ resp'.status = "200"
        /\ machines[h[p].id] # NoDoc)
         => StoredSelected(machines', h[p].id) = <<JsNot(StoredSelected(machines, h[p].id))>>]_vars

\* C5: GET /totals answers the sums over exactly the machines whose stored
\* isSelected is true (the empty mapping when there is none).
C5_TotalsOverSelected ==
  (resp.route = "GET /totals" /\ resp.status = "200") => resp.body = ExpectedTotals(machines)

\* C6: when a save-report completes with no other request interleaved
\* (SpecSerial), every machine's stored isSelected is false and the Record
\* of its date holds the totals of the machines that were selected before
\* the reset.
C6_SaveReportResets ==
  [][\A p \in Procs :
       (/\ h[p].pc = "sr_reset" /\ h'[p].pc = "idle"
        /\ resp'.route = "POST /save-report" /\ resp'.status = "302:/records")
         => /\ \A m \in MachineIds :
                 machines'[m] # NoDoc => StoredSelected(machines', m) = <<FALSE>>
            /\ RecordHolds(records', h[p].date, ExpectedTotals(machines))]_vars

\* C7: in single mode the chosen records are at most one stored Record, of
\* exactly the requested date (today when none is posted), and none is
\* chosen exactly when the store has no Record of that date.
C7_SingleExactDate ==
  (resp.route = "POST /generate-report" /\ resp.status = "200" /\ resp.body.allDates # "on")
    => LET want   == IF resp.body.date = <<>> THEN today ELSE resp.body.date[1]
           chosen == resp.body.records
       IN  /\ Len(chosen) <= 1
           /\ \A i \in DOMAIN chosen :
                chosen[i].date = want /\ \E r \in RecordIds : records[r] = chosen[i]
           /\ (chosen = <<>>) <=> (RecordsOf(records, want) = {})

\* C7 witness: a date was requested that has no Record while another date
\* has one, and nothing was chosen.
C7_Witness ==
  /\ resp.route = "POST /generate-report" /\ resp.status = "200"
  /\ resp.body.allDates # "on" /\ resp.body.date # <<>>
  /\ RecordsOf(records, resp.body.date[1]) = {}
  /\ \E d \in Dates : RecordsOf(records, d) # {}
  /\ resp.body.records = <<>>

\* C8: no store failure escapes a handler: every request whose store call
\* fails is answered by its route's catch block.
C8_FailuresCaught == resp.status # "unhandled"

\* C9: save-report reaches its reset only through its upsert, which leaves
\* the Record of its date holding the totals it computed; every step of
\* save-report but the successful reset leaves the machines as they are;
\* and a reset that fails ends the request with 500 and writes neither a
\* machine nor a Record, so the stored Record stays and no flag is reset.
C9_UpsertBeforeReset ==
  [][\A p \in Procs :
       /\ (h[p].pc # "sr_reset" /\ h'[p].pc = "sr_reset")
            => /\ h[p].pc \in {"sr_upsert", "sr_insert"}
               /\ RecordHolds(records', h'[p].date, h'[p].totals)
       /\ (/\ h'[p].pc # h[p].pc
           /\ h[p].pc \in SaveReportPcs \/ h'[p].pc \in SaveReportPcs
           /\ ~(h[p].pc = "sr_reset" /\ resp'.status = "302:/records"))
            => machines' = machines
       /\ (h[p].pc = "sr_reset" /\ h'[p].pc = "idle" /\ resp'.step = "Machine.updateMany")
            => /\ resp'.status = "500"
               /\ machines' = machines /\ records' = records]_vars

\* C9 witness: a save-report over a stored machine failed at the reset,
\* and the Record it stored, with totals, is in the store.
C9_Witness ==
  /\ resp.route = "POST /save-report" /\ resp.step = "Machine.updateMany" /\ resp.status = "500"
  /\ \E r \in RecordIds : RecordsOf(records, today) = {r} /\ records[r].totals # EmptyTotals
  /\ \E m \in MachineIds : machines[m] # NoDoc

\* C10: a toggle that reports success while a save-report is between its
\* read and its reset has committed its write: the machine's stored
\* isSelected is the value the toggle reports (the write the reset is then
\* said to overwrite).
C10_RacingToggleCommits ==
  [][\A p \in Procs :
       (/\ h[p].pc = "tg_save" /\ h'[p].pc = "idle"
        /\ resp'.route = "POST /machine/:id/toggle" /\ resp'.status = "200"
        /\ machines[h[p].id] # NoDoc
        /\ \E q \in Procs \ {p} : h[q].pc \in SaveReportPcs)
         => StoredSelected(machines', h[p].id) = <<resp'.body.isSelected>>]_vars

=============================================================================
